---- MODULE Spec2Model ----
(***************************************************************************)
(* Model of ExternalModuleMapPlugin (src/external-module-map-plugin.ts):   *)
(* the three converter callbacks onBegin, onDeclarationBegin and           *)
(* onBeginResolve, the project tree they mutate, and the README walk.      *)
(*                                                                         *)
(* Strings that are paths are kept as the sequence of their "/"-separated  *)
(* pieces, exactly what String.split("/") yields: "/foo/a.ts" is           *)
(* <<"", "foo", "a.ts">>, "/" is <<"", "">>, "foo" is <<"foo">>.           *)
(***************************************************************************)
EXTENDS Integers, Sequences, FiniteSets, TLC

VARIABLES
    pc,             \* position of the host: "idle", "convert", "resolve", "done", "threw", "resolved"
    run,            \* number of conversions started so far
    budget,         \* what is explored: [runs, refl, repeats] conversions, reflections and
                    \* repeated callbacks per conversion; [options, kinds, nodes] offered
                    \* to the host
    option,         \* value of the "external-modulemap" option read by the last onBegin
    moduleRenames,  \* this.moduleRenames: sequence of [renameTo, reflection]
    mapRegEx,       \* this.mapRegEx: the compiled pattern text, or Undefined
    isMappingEnabled, \* this.isMappingEnabled
    modules,        \* this.modules: a Set<string>, kept in insertion order
    refl,           \* the heap of Reflection objects of the current project, by id
    project,        \* context.project: [reflections: registered ids, children: top-level ids]
    refsArray,      \* onBeginResolve's snapshot of context.project.reflections
    i,              \* index of the next entry of moduleRenames.forEach
    j,              \* index of the next entry of modules.forEach
    pre,            \* the heap and project as they were when onBeginResolve started
    last,           \* what the last step of onBeginResolve did (entry, merge target, reads)
    walk            \* a README walk taken alone: its inputs, its position, its locals

vars == <<pc, run, budget, option, moduleRenames, mapRegEx, isMappingEnabled,
          modules, refl, project, refsArray, i, j, pre, last, walk>>

----------------------------------------------------------------------------
(* Bounds of the exploration *)

MaxRuns == 2
MaxRefl == 2
MaxTreeRefl == 3
MaxDupRefl == 2
MaxRepeats == 1
MaxMergeRefl == 4

----------------------------------------------------------------------------
(* Values *)

Undefined == "undefined"

\* ReflectionKind values the host uses for the created reflections
Kinds == {"ExternalModule", "Class"}

\* display names the host gives to reflections
Names == {"foo", "bar"}

\* the project itself is the parent of top-level reflections; it is not registered
Project == 0

\* patterns: the first directory of the path, and the directory below /bar
ReFirst == "^/([^/]+)/"
ReBar == "^/bar/([^/]+)/"
ReBroken == "("

\* values this.options.getValue("external-modulemap") may return
OptionValues ==
    { [isString |-> FALSE, text |-> Undefined],
      [isString |-> FALSE, text |-> "123"],
      [isString |-> TRUE, text |-> ReBroken],
      [isString |-> TRUE, text |-> ReFirst],
      [isString |-> TRUE, text |-> ReBar] }

\* file names of the source files the host converts
FileA == <<"", "foo", "a.ts">>
FileB == <<"", "bar", "foo", "b.ts">>
Files == {FileA, FileB}

\* the node handed to onDeclarationBegin: absent, a declaration inside a file
\* (its fileName is undefined, which exec() reads as the string "undefined"),
\* or a source file with its fileName
NoNode == <<>>
DeclNode == <<Undefined>>
Nodes == {NoNode, DeclNode} \cup Files

\* the host hands a source-file node only with the reflection of that file
NodesOf(kind) == IF kind = "ExternalModule" THEN Nodes ELSE {NoNode, DeclNode}

----------------------------------------------------------------------------
(* Sequence helpers *)

RECURSIVE SortedSeq(_)
\* Object.keys of an object with integer keys: ascending
SortedSeq(S) ==
    IF S = {} THEN <<>>
    ELSE LET m == CHOOSE x \in S : \A y \in S : x <= y
         IN <<m>> \o SortedSeq(S \ {m})

Range(s) == {s[k] : k \in 1..Len(s)}

\* index of the first occurrence of x in s, 0 when absent (Array.prototype.indexOf + 1)
IndexOf(s, x) ==
    IF \E k \in 1..Len(s) : s[k] = x
    THEN CHOOSE k \in 1..Len(s) : s[k] = x /\ \A l \in 1..(k-1) : s[l] # x
    ELSE 0

\* s without its element at index k (Array.prototype.splice(k, 1))
Splice(s, k) == [l \in 1..(Len(s)-1) |-> IF l < k THEN s[l] ELSE s[l+1]]

----------------------------------------------------------------------------
(* Pattern Matcher *)

\* new RegExp(text) succeeds
Compiles(text) == text \in {ReFirst, ReBar}

\* RegExp.exec(fileName): <<match[1]>> on a match, <<>> for null
Exec(re, fileName) ==
    IF re = ReFirst
    THEN IF Len(fileName) >= 3 /\ fileName[1] = "" /\ fileName[2] # ""
         THEN <<fileName[2]>> ELSE <<>>
    ELSE IF re = ReBar
    THEN IF Len(fileName) >= 4 /\ fileName[1] = "" /\ fileName[2] = "bar"
            /\ fileName[3] # ""
         THEN <<fileName[3]>> ELSE <<>>
    ELSE <<>>

----------------------------------------------------------------------------
(* Paths (posix) *)

\* path.isAbsolute: the string starts with "/"
IsAbsolute(p) == Len(p) >= 2 /\ p[1] = ""

\* path.parse(p).root
PathRoot(p) == IF IsAbsolute(p) THEN <<"", "">> ELSE <<"">>

\* path.dirname(p).split(path.sep), for a normalized p
DirnameSplit(p) ==
    IF Len(p) >= 3 THEN SubSeq(p, 1, Len(p) - 1)
    ELSE IF Len(p) = 2 THEN (IF p[1] = "" THEN <<"", "">> ELSE <<p[1]>>)
    ELSE <<".">>

\* path.join(pathRoot, ...pathStack, "README.md"): empty pieces vanish in normalization
ReadmePath(pathRoot, pathStack) ==
    (IF IsAbsolute(pathRoot) THEN <<"">> ELSE <<>>)
        \o SelectSeq(pathStack, LAMBDA s : s # "") \o <<"README.md">>

\* README.md files the walks over Files can ask for
ReadmePaths == { <<"", "foo", "README.md">>, <<"", "bar", "README.md">>,
                 <<"", "bar", "foo", "README.md">> }

\* states of the file system: the set of README.md files that can be read
FileSystems == SUBSET ReadmePaths

----------------------------------------------------------------------------
(* README walk, lines 150-164 *)

\* an iteration whose failed read ends the walk, as if the error were not caught
WalkIterStopsOnFailure(name, pathRoot, fs, w) ==
    LET stack == w.pathStack
        hit == name = stack[Len(stack)]
        readmePath == ReadmePath(pathRoot, stack)
        ok == hit /\ readmePath \in fs
    IN [ pathStack |-> IF hit /\ ~ok THEN <<>> ELSE SubSeq(stack, 1, Len(stack) - 1),
         readme |-> IF ok THEN <<readmePath>> ELSE w.readme,
         reads |-> IF hit THEN Append(w.reads, [path |-> readmePath, ok |-> ok])
                   ELSE w.reads ]

\* an iteration that forgets pathStack.pop()
WalkIterNoPop(name, pathRoot, fs, w) ==
    LET stack == w.pathStack
        hit == name = stack[Len(stack)]
        readmePath == ReadmePath(pathRoot, stack)
        ok == hit /\ readmePath \in fs
    IN [ pathStack |-> stack,
         readme |-> IF ok THEN <<readmePath>> ELSE w.readme,
         reads |-> IF hit THEN Append(w.reads, [path |-> readmePath, ok |-> ok])
                   ELSE w.reads ]

\* one iteration of the do/while body: w = [pathStack, readme, reads]
WalkIter(name, pathRoot, fs, w) ==
    LET stack == w.pathStack
        hit == name = stack[Len(stack)]
        readmePath == ReadmePath(pathRoot, stack)
        ok == hit /\ readmePath \in fs
    IN [ pathStack |-> SubSeq(stack, 1, Len(stack) - 1),
         readme |-> IF ok THEN <<readmePath>> ELSE w.readme,
         reads |-> IF hit THEN Append(w.reads, [path |-> readmePath, ok |-> ok])
                   ELSE w.reads ]

\* the walk goes on after a successful read
WalkGoesOnToRoot(w) == Len(w.pathStack) > 0

\* the do/while condition
WalkGoesOn(w) == w.readme = <<>> /\ Len(w.pathStack) > 0

RECURSIVE WalkFrom(_, _, _, _)
\* the whole do/while loop, from a state in which the body is about to run
WalkFrom(name, pathRoot, fs, w) ==
    LET w2 == WalkIter(name, pathRoot, fs, w)
    IN IF WalkGoesOn(w2) THEN WalkFrom(name, pathRoot, fs, w2) ELSE w2

\* lines 150-152: the state before the first iteration
WalkStart(originalName) ==
    [pathStack |-> DirnameSplit(originalName), readme |-> <<>>, reads |-> <<>>]

Walk(name, originalName, fs) ==
    WalkFrom(name, PathRoot(originalName), fs, WalkStart(originalName))

----------------------------------------------------------------------------
(* The project tree *)

NewReflection(kind, name, originalName, parent) ==
    [ kind |-> kind, name |-> name, originalName |-> originalName,
      parent |-> parent, children |-> <<>>, hasChildren |-> FALSE,
      comment |-> <<>>, package |-> FALSE, kindString |-> Undefined ]

EmptyProject == [reflections |-> {}, children |-> <<>>]

\* a tree is the pair [refl, project]
ChildrenOf(t, p) == IF p = Project THEN t.project.children ELSE t.refl[p].children

SetChildren(t, p, kids) ==
    IF p = Project
    THEN [t EXCEPT !.project.children = kids]
    ELSE [t EXCEPT !.refl[p].children = kids]

\* the project's remove(reflection): the reflection is taken out of its parent's
\* children and dropped from project.reflections (the caller has emptied its children)
removeReflection(t, r) ==
    LET p == t.refl[r].parent
        at == IndexOf(ChildrenOf(t, p), r)
        t2 == IF at = 0 THEN t ELSE SetChildren(t, p, Splice(ChildrenOf(t, p), at))
    IN [t2 EXCEPT !.project.reflections = @ \ {r}]

----------------------------------------------------------------------------
(* Tree Reconciler, lines 102-135 *)

\* the search compares the names the reflections had when the flat list was captured
MergeTargetSnapshot(heap, arr, renaming, renameTo) ==
    LET found == SelectSeq(arr, LAMBDA ref :
                     heap[ref].kind = heap[renaming].kind /\ pre.refl[ref].name = renameTo)
    IN IF found = <<>> THEN 0 ELSE found[1]

\* the last match is taken instead of the first
MergeTargetLast(heap, arr, renaming, renameTo) ==
    LET found == SelectSeq(arr, LAMBDA ref :
                     heap[ref].kind = heap[renaming].kind /\ heap[ref].name = renameTo)
    IN IF found = <<>> THEN 0 ELSE found[Len(found)]

\* lines 105-109: refsArray.filter(kind and name equal)[0]; 0 when there is none
MergeTarget(heap, arr, renaming, renameTo) ==
    LET found == SelectSeq(arr, LAMBDA ref :
                     heap[ref].kind = heap[renaming].kind /\ heap[ref].name = renameTo)
    IN IF found = <<>> THEN 0 ELSE found[1]

\* line 122: refsArray.filter(ref => ref.parent === renaming)
ChildrenOfRenamed(heap, arr, renaming) ==
    SelectSeq(arr, LAMBDA ref : heap[ref].parent = renaming)

RECURSIVE RelocatePrepend(_, _, _)
\* each child is put in front of the merge target's children
RelocatePrepend(heap, kids, mergeTarget) ==
    IF kids = <<>> THEN heap
    ELSE RelocatePrepend([heap EXCEPT ![Head(kids)].parent = mergeTarget,
                                      ![mergeTarget].children = <<Head(kids)>> \o @],
                         Tail(kids), mergeTarget)

RECURSIVE Relocate(_, _, _)
\* lines 123-129: each child gets the merge target as parent and is pushed on its children
Relocate(heap, kids, mergeTarget) ==
    IF kids = <<>> THEN heap
    ELSE Relocate([heap EXCEPT ![Head(kids)].parent = mergeTarget,
                               ![mergeTarget].children = Append(@, Head(kids))],
                  Tail(kids), mergeTarget)

\* lines 117-134: the merge of renaming into mergeTarget
Merge(t, arr, renaming, mergeTarget) ==
    LET h1 == [t.refl EXCEPT ![mergeTarget].hasChildren = TRUE]
        h2 == Relocate(h1, ChildrenOfRenamed(h1, arr, renaming), mergeTarget)
        h3 == IF h2[renaming].hasChildren
              THEN [h2 EXCEPT ![renaming].children = <<>>] ELSE h2
    IN removeReflection([t EXCEPT !.refl = h3], renaming)

\* the rename in place without its return: the emptying and the removal follow
ProcessRenameNoReturn(t, arr, item) ==
    LET renaming == item.reflection
        mergeTarget == MergeTarget(t.refl, arr, renaming, item.renameTo)
        renamed == [t EXCEPT !.refl[renaming].name = item.renameTo,
                             !.refl[renaming].children = <<>>]
    IN IF mergeTarget = 0
       THEN removeReflection(renamed, renaming)
       ELSE Merge(t, arr, renaming, mergeTarget)

\* lines 103-134: the body of moduleRenames.forEach for one entry
ProcessRename(t, arr, item) ==
    LET renaming == item.reflection
        mergeTarget == MergeTarget(t.refl, arr, renaming, item.renameTo)
    IN IF mergeTarget = 0
       THEN [t EXCEPT !.refl[renaming].name = item.renameTo]
       ELSE Merge(t, arr, renaming, mergeTarget)

----------------------------------------------------------------------------
(* Package Annotator, lines 137-171 *)

\* lines 138-140: the first reflection of refsArray with that name and an absolute
\* originalName; 0 when find() yields undefined
FindPackage(heap, arr, name) ==
    LET found == SelectSeq(arr, LAMBDA ref :
                     heap[ref].name = name /\ IsAbsolute(heap[ref].originalName))
    IN IF found = <<>> THEN 0 ELSE found[1]

\* a plain writable data property instead of the accessor pair
SetKindStringWritable(heap, ref, value) ==
    [heap EXCEPT ![ref].kindString = value, ![ref].package = FALSE]

\* a read of ref.kindString: the get accessor of lines 143-145 once it is defined
GetKindString(ref) == IF ref.package THEN "Package" ELSE ref.kindString

\* ref.kindString = value: the set accessor of lines 146-148 ignores the value
SetKindString(heap, ref, value) ==
    IF heap[ref].package THEN heap ELSE [heap EXCEPT ![ref].kindString = value]

\* lines 142-170 for a reflection that was found: kindString, the walk, the comment
Annotate(heap, ref, name, fs) ==
    LET w == Walk(name, heap[ref].originalName, fs)
    IN [heap EXCEPT ![ref].package = TRUE,
                    ![ref].comment = IF w.readme # <<>> THEN w.readme ELSE @]

----------------------------------------------------------------------------
(* State after initialize(), lines 38-46 *)

NoStep == [op |-> "none", item |-> 0, target |-> 0, reads |-> <<>>]

\* no walk is taken alone
NoWalk == [at |-> "none"]

InitPlugin ==
    /\ pc = "idle"
    /\ run = 0
    /\ option = [isString |-> FALSE, text |-> Undefined]
    /\ moduleRenames = <<>>
    /\ mapRegEx = Undefined
    /\ isMappingEnabled = FALSE
    /\ modules = <<>>
    /\ refl = <<>>
    /\ project = EmptyProject
    /\ refsArray = <<>>
    /\ i = 1
    /\ j = 1
    /\ pre = [refl |-> <<>>, project |-> EmptyProject]
    /\ last = NoStep

\* several conversions with one plugin instance, small trees
Init ==
    /\ InitPlugin
    /\ walk = NoWalk
    /\ budget = [runs |-> MaxRuns, refl |-> MaxRefl, repeats |-> 0,
                 options |-> OptionValues, kinds |-> Kinds, nodes |-> Nodes]

\* one conversion, larger trees
InitTree ==
    /\ InitPlugin
    /\ walk = NoWalk
    /\ budget = [runs |-> 1, refl |-> MaxTreeRefl, repeats |-> 0,
                 options |-> OptionValues, kinds |-> Kinds, nodes |-> Nodes]

\* everything but walk
pluginVars == <<pc, run, budget, option, moduleRenames, mapRegEx, isMappingEnabled,
                modules, refl, project, refsArray, i, j, pre, last>>

----------------------------------------------------------------------------
(* onBegin, lines 51-70 *)

\* the typeof test and the try/catch around new RegExp
CompiledOk(value) == value.isString /\ Compiles(value.text)

onBegin(value) ==
    /\ moduleRenames' = <<>>
    /\ option' = value
    /\ IF CompiledOk(value)
       THEN mapRegEx' = value.text /\ isMappingEnabled' = TRUE
       ELSE UNCHANGED <<mapRegEx, isMappingEnabled>>
    /\ UNCHANGED modules

\* the host starts a conversion: a new, empty project, then EVENT_BEGIN
BeginRun ==
    /\ pc \in {"idle", "done", "threw", "resolved"}
    /\ run < budget.runs
    /\ \E value \in budget.options : onBegin(value)
    /\ pc' = "convert"
    /\ run' = run + 1
    /\ refl' = <<>>
    /\ project' = EmptyProject
    /\ refsArray' = <<>>
    /\ i' = 1
    /\ j' = 1
    /\ pre' = [refl |-> <<>>, project |-> EmptyProject]
    /\ last' = NoStep
    /\ UNCHANGED <<budget, walk>>

----------------------------------------------------------------------------
(* onDeclarationBegin, lines 72-87 *)

\* Set.prototype.add on the insertion-ordered set
SetAdd(set, x) == IF x \in Range(set) THEN set ELSE Append(set, x)

onDeclarationBegin(reflection, node) ==
    IF node = NoNode \/ ~isMappingEnabled
    THEN UNCHANGED <<modules, moduleRenames>>
    ELSE LET match == Exec(mapRegEx, node)
         IN IF match # <<>>
            THEN /\ modules' = SetAdd(modules, match[1])
                 /\ moduleRenames' = Append(moduleRenames,
                        [renameTo |-> match[1], reflection |-> reflection])
            ELSE UNCHANGED <<modules, moduleRenames>>

\* the host creates and registers a reflection under the project or under an
\* existing reflection, then fires EVENT_CREATE_DECLARATION
CreateDeclaration ==
    /\ pc = "convert"
    /\ Len(refl) < budget.refl
    /\ \E kind \in budget.kinds, name \in Names, parent \in {Project} \cup (1..Len(refl)) :
       \E node \in NodesOf(kind) \cap budget.nodes :
          LET id == Len(refl) + 1
              originalName == IF node \in Files THEN node ELSE <<name>>
              h == Append(refl, NewReflection(kind, name, originalName, parent))
          IN /\ refl' = IF parent = Project THEN h
                        ELSE [h EXCEPT ![parent].children = Append(@, id),
                                       ![parent].hasChildren = TRUE]
             /\ project' = [reflections |-> project.reflections \cup {id},
                            children |-> IF parent = Project
                                         THEN Append(project.children, id)
                                         ELSE project.children]
             /\ onDeclarationBegin(id, node)
    /\ UNCHANGED <<pc, run, budget, option, mapRegEx, isMappingEnabled,
                   refsArray, i, j, pre, last, walk>>

\* entries of moduleRenames beyond the first one of their reflection
Repeats ==
    Len(moduleRenames)
        - Cardinality({moduleRenames[e].reflection : e \in 1..Len(moduleRenames)})

\* the host fires EVENT_CREATE_DECLARATION once more for a reflection that exists
\* already (a further declaration of the same symbol), with that declaration's
\* node; the callback records the reflection a second time when the path matches
RepeatDeclaration ==
    /\ pc = "convert"
    /\ Repeats < budget.repeats
    /\ \E reflection \in 1..Len(refl) :
       \E node \in NodesOf(refl[reflection].kind) \cap budget.nodes :
          onDeclarationBegin(reflection, node)
    /\ UNCHANGED <<pc, run, budget, option, mapRegEx, isMappingEnabled,
                   refl, project, refsArray, i, j, pre, last, walk>>

----------------------------------------------------------------------------
(* onBeginResolve, lines 94-172 *)

Tree == [refl |-> refl, project |-> project]

\* lines 95-99: the flat list is captured once
onBeginResolve ==
    /\ pc = "convert"
    /\ pc' = "resolve"
    /\ refsArray' = SortedSeq(project.reflections)
    /\ pre' = Tree
    /\ i' = 1
    /\ j' = 1
    /\ last' = NoStep
    /\ UNCHANGED <<run, budget, option, moduleRenames, mapRegEx, isMappingEnabled,
                   modules, refl, project, walk>>

\* one iteration of this.moduleRenames.forEach
RenameStep ==
    /\ pc = "resolve"
    /\ i <= Len(moduleRenames)
    /\ LET item == moduleRenames[i]
           mergeTarget == MergeTarget(refl, refsArray, item.reflection, item.renameTo)
           t == ProcessRename(Tree, refsArray, item)
       IN /\ refl' = t.refl
          /\ project' = t.project
          /\ last' = [op |-> IF mergeTarget = 0 THEN "rename" ELSE "merge",
                      item |-> i, target |-> mergeTarget, reads |-> <<>>]
    /\ i' = i + 1
    /\ UNCHANGED <<pc, run, budget, option, moduleRenames, mapRegEx,
                   isMappingEnabled, modules, refsArray, j, pre, walk>>

\* one iteration of this.modules.forEach; Object.defineProperty throws a
\* TypeError when find() yielded undefined, which ends onBeginResolve
AnnotateStep ==
    /\ pc = "resolve"
    /\ i > Len(moduleRenames)
    /\ j <= Len(modules)
    /\ LET name == modules[j]
           ref == FindPackage(refl, refsArray, name)
       IN IF ref = 0
          THEN /\ pc' = "threw"
               /\ last' = [op |-> "throw", item |-> j, target |-> 0, reads |-> <<>>]
               /\ UNCHANGED <<refl, j>>
          ELSE \E fs \in FileSystems :
               /\ refl' = Annotate(refl, ref, name, fs)
               /\ last' = [op |-> "annotate", item |-> j, target |-> ref,
                           reads |-> Walk(name, refl[ref].originalName, fs).reads]
               /\ j' = j + 1
               /\ pc' = pc
    /\ UNCHANGED <<run, budget, option, moduleRenames, mapRegEx, isMappingEnabled,
                   modules, project, refsArray, i, pre, walk>>

\* both loops are through: onBeginResolve returns
EndResolve ==
    /\ pc = "resolve"
    /\ i > Len(moduleRenames)
    /\ j > Len(modules)
    /\ pc' = "done"
    /\ UNCHANGED <<run, budget, option, moduleRenames, mapRegEx, isMappingEnabled,
                   modules, refl, project, refsArray, i, j, pre, last, walk>>

RECURSIVE AssignKindStrings(_, _)
\* the host assigns kindString to the reflections of a list, one after the other
AssignKindStrings(heap, ids) ==
    IF ids = <<>> THEN heap
    ELSE AssignKindStrings(SetKindString(heap, Head(ids), heap[Head(ids)].kind), Tail(ids))

\* after EVENT_RESOLVE_BEGIN the host resolves every registered reflection and
\* assigns the label of its kind to kindString
ResolveKinds ==
    /\ pc = "done"
    /\ pc' = "resolved"
    /\ refl' = AssignKindStrings(refl, SortedSeq(project.reflections))
    /\ UNCHANGED <<run, budget, option, moduleRenames, mapRegEx, isMappingEnabled,
                   modules, project, refsArray, i, j, pre, last, walk>>

Next ==
    \/ BeginRun
    \/ CreateDeclaration
    \/ onBeginResolve
    \/ RenameStep
    \/ AnnotateStep
    \/ EndResolve
    \/ ResolveKinds

Spec == Init /\ [][Next]_vars

SpecTree == InitTree /\ [][Next]_vars

\* one conversion in which a reflection can be recorded more than once
InitDup ==
    /\ InitPlugin
    /\ walk = NoWalk
    /\ budget = [runs |-> 1, refl |-> MaxDupRefl, repeats |-> MaxRepeats,
                 options |-> OptionValues, kinds |-> Kinds, nodes |-> Nodes]

NextDup == Next \/ RepeatDeclaration

SpecDup == InitDup /\ [][NextDup]_vars

\* one conversion of source files below /foo with the pattern that captures the
\* first directory: deeper trees of external modules
InitMerge ==
    /\ InitPlugin
    /\ walk = NoWalk
    /\ budget = [runs |-> 1, refl |-> MaxMergeRefl, repeats |-> 0,
                 options |-> {[isString |-> TRUE, text |-> ReFirst]},
                 kinds |-> {"ExternalModule"}, nodes |-> {NoNode, FileA}]

SpecMerge == InitMerge /\ [][Next]_vars

----------------------------------------------------------------------------
(* The README walk of lines 150-170 taken alone, one loop iteration per step *)

\* logical names: a capture may be any piece of a path, also the empty one
WalkNames == {"foo", "bar", ""}

\* absolute originalNames of annotated reflections
WalkPaths ==
    { FileA, FileB,
      <<"", "foo", "x", "foo", "c.ts">>,
      <<"", "foo", "foo", "d.ts">>,
      <<"", "e.ts">> }

\* README.md files that may exist
WalkReadmes ==
    { <<"", "README.md">>,
      <<"", "foo", "README.md">>,
      <<"", "bar", "README.md">>,
      <<"", "bar", "foo", "README.md">>,
      <<"", "foo", "x", "README.md">>,
      <<"", "foo", "x", "foo", "README.md">>,
      <<"", "foo", "foo", "README.md">> }

InitWalk ==
    /\ InitPlugin
    /\ budget = [runs |-> 0, refl |-> 0, repeats |-> 0,
                 options |-> {}, kinds |-> {}, nodes |-> {}]
    /\ \E name \in WalkNames, originalName \in WalkPaths, fs \in SUBSET WalkReadmes :
          walk = [ at |-> "body", name |-> name, originalName |-> originalName,
                   fs |-> fs, w |-> WalkStart(originalName), comment |-> <<>> ]

\* lines 153-164: the body of the do/while once, then its condition
WalkBody ==
    /\ walk.at = "body"
    /\ LET w2 == WalkIter(walk.name, PathRoot(walk.originalName), walk.fs, walk.w)
       IN walk' = [walk EXCEPT !.w = w2,
                               !.at = IF WalkGoesOn(w2) THEN "body" ELSE "end"]
    /\ UNCHANGED pluginVars

\* lines 165-170: the comment is set when a README was read
WalkEnd ==
    /\ walk.at = "end"
    /\ walk' = [walk EXCEPT !.at = "done",
                            !.comment = IF walk.w.readme # <<>> THEN walk.w.readme ELSE @]
    /\ UNCHANGED pluginVars

NextWalk == WalkBody \/ WalkEnd

SpecWalk == InitWalk /\ [][NextWalk]_vars

----------------------------------------------------------------------------
(* Vocabulary of the properties *)

Ids == 1..Len(refl)

Live(x) == x \in project.reflections

\* the rename loop of onBeginResolve is through
Reconciled == pc \in {"resolve", "done", "threw"} /\ i > Len(moduleRenames)

\* a step of the rename loop is about to process moduleRenames[i]
AtRename == pc = "resolve" /\ i <= Len(moduleRenames)

\* the reflections of the flat list that have the kind of reflection r and the name n
Candidates(r, n) ==
    {x \in Range(refsArray) : refl[x].kind = refl[r].kind /\ refl[x].name = n}

\* the element of a non-empty set of listed reflections that comes first in the flat list
FirstListed(S) ==
    refsArray[CHOOSE k \in 1..Len(refsArray) :
                 refsArray[k] \in S /\ \A l \in 1..(k-1) : refsArray[l] \notin S]

\* the pending renames with target name n whose reflection has kind k
Group(k, n) ==
    {moduleRenames[e].reflection : e \in
        {e \in 1..Len(moduleRenames) :
            moduleRenames[e].renameTo = n /\ refl[moduleRenames[e].reflection].kind = k}}

TargetNames == {moduleRenames[e].renameTo : e \in 1..Len(moduleRenames)}

----------------------------------------------------------------------------
(* C1: after reconciliation, for every group of reflections of one kind that   *)
(* matched with the same capture n: the live members are named n; the live     *)
(* reflections that were children of a member are children of one common live  *)
(* node named n; and when no reflection of that kind was named n before, there *)
(* is exactly one live reflection of that kind named n.                        *)
C1_GroupMerged ==
    Reconciled =>
        \A k \in Kinds, n \in TargetNames :
            LET G == Group(k, n)
                kids == {x \in Ids : Live(x) /\ pre.refl[x].parent \in G}
            IN G # {} =>
                /\ \A r \in G : Live(r) => refl[r].name = n
                /\ \E c \in Ids :
                      /\ Live(c) /\ refl[c].name = n
                      /\ \A x \in kids : refl[x].parent = c /\ x \in Range(refl[c].children)
                /\ (\A y \in Ids : ~(pre.refl[y].kind = k /\ pre.refl[y].name = n))
                      => Cardinality({y \in Ids : Live(y) /\ refl[y].kind = k
                                                  /\ refl[y].name = n}) = 1

(* C2: after reconciliation no live reflection has a parent that was removed   *)
(* from the project tree.                                                      *)
C2_NoRemovedParent ==
    Reconciled =>
        \A x \in Ids : Live(x) /\ refl[x].parent # Project => Live(refl[x].parent)

\* number of occurrences of x in the sequence s
Count(s, x) == Cardinality({k \in 1..Len(s) : s[k] = x})

(* C3: after each processed pending rename the parent/children relation of the *)
(* live reflections is consistent in both directions: a live reflection occurs *)
(* exactly once in the children of its parent, and every entry of a live       *)
(* node's children has that node as its parent.                                *)
C3_ParentChildrenConsistent ==
    pc \in {"resolve", "done", "threw"} =>
        /\ \A x \in Ids : Live(x) =>
              Count(IF refl[x].parent = Project THEN project.children
                    ELSE refl[refl[x].parent].children, x) = 1
        /\ \A p \in Ids : Live(p) =>
              \A k \in 1..Len(refl[p].children) : refl[refl[p].children[k]].parent = p

(* C4: in every run matching is enabled during the node-created callbacks iff  *)
(* the option read by that run's onBegin is a string that compiles; otherwise  *)
(* no pending rename is recorded and onBeginResolve leaves the tree unchanged. *)
C4_EnabledIffCompiled ==
    /\ pc = "convert" => (isMappingEnabled <=> CompiledOk(option))
    /\ (pc # "idle" /\ ~CompiledOk(option)) =>
          /\ moduleRenames = <<>>
          /\ pc \in {"resolve", "done", "threw"} => Tree = pre

(* C5: onBegin empties the PendingRename list and the LogicalNameSet before    *)
(* any reflection of the run is created, so the annotator meets only names     *)
(* recorded in the same run.                                                   *)
C5_RunStartsEmpty ==
    /\ (pc = "convert" /\ refl = <<>>) => (moduleRenames = <<>> /\ modules = <<>>)
    /\ pc \in {"convert", "resolve", "done", "threw"} => Range(modules) \subseteq TargetNames

----------------------------------------------------------------------------
(* Steps of the rename loop, seen from outside *)

\* the reflection and the target name of the entry the next step processes
Renaming == moduleRenames[i].reflection
RenameTo == moduleRenames[i].renameTo

\* this step processes moduleRenames[i]
RenameDone == AtRename /\ i' = i + 1

\* the reflections of the flat list whose parent is x
ListedChildren(x) == {c \in Range(refsArray) : refl[c].parent = x}

\* no earlier entry has this entry's target name and kind
FirstForName ==
    \A e \in 1..(i-1) :
        ~(moduleRenames[e].renameTo = RenameTo
          /\ refl[moduleRenames[e].reflection].kind = refl[Renaming].kind)

\* the reflections that had the entry's kind and target name when onBeginResolve began
InitialCandidates ==
    {x \in Range(refsArray) :
        pre.refl[x].kind = refl[Renaming].kind /\ pre.refl[x].name = RenameTo}

\* the step merges the renaming reflection into m
MergedInto(m) ==
    /\ Renaming \notin project'.reflections
    /\ \A c \in ListedChildren(Renaming) \ {Renaming} :
          /\ refl'[c].parent = m
          /\ m # Renaming => c \in Range(refl'[m].children)

(* C6 as amended: each pending rename that has a candidate in the flat list    *)
(* (same kind, name equal to the target name when the entry is processed)      *)
(* merges into the candidate that comes first in the flat list, and no step    *)
(* of the reconciliation adds a reflection to the project.                     *)
C6_FirstListedWins ==
    [][ RenameDone =>
          /\ Candidates(Renaming, RenameTo) # {}
                => MergedInto(FirstListed(Candidates(Renaming, RenameTo)))
          /\ project'.reflections \subseteq project.reflections
          /\ Len(refl') = Len(refl) ]_vars

(* C6 as stated: when two reflections with the kind and the target name exist  *)
(* before any rename is processed, the first pending rename for that name      *)
(* merges into the one of them that is earlier in the flat list.               *)
C6_EarlierOfInitialTwo ==
    [][ (RenameDone /\ FirstForName /\ Cardinality(InitialCandidates) >= 2)
          => MergedInto(FirstListed(InitialCandidates)) ]_vars

\* a merge took place although a later reflection of the list had the name too
C6_Witness ==
    /\ pc = "resolve" /\ last.op = "merge"
    /\ \E x \in Ids :
          /\ x > last.target
          /\ x # moduleRenames[last.item].reflection
          /\ refl[x].kind = refl[last.target].kind
          /\ pre.refl[x].name = moduleRenames[last.item].renameTo
          /\ refl[x].name = pre.refl[x].name
    /\ \E c \in Ids : pre.refl[c].parent = moduleRenames[last.item].reflection
                      /\ refl[c].parent = last.target
                      /\ last.target # moduleRenames[last.item].reflection

(* C7: when the flat list holds no reflection with the renaming reflection's   *)
(* kind and the target name, the step changes the name of the renaming         *)
(* reflection and nothing else: no other attribute of any reflection, and      *)
(* nothing of the project tree.                                                *)
C7_RenameInPlace ==
    [][ (RenameDone /\ Candidates(Renaming, RenameTo) = {})
          => /\ refl' = [refl EXCEPT ![Renaming].name = RenameTo]
             /\ project' = project ]_vars

\* a reflection with a parent and a child was renamed in place
C7_Witness ==
    /\ pc = "resolve" /\ last.op = "rename"
    /\ LET r == moduleRenames[last.item].reflection
       IN /\ refl[r].name = moduleRenames[last.item].renameTo
          /\ pre.refl[r].name # refl[r].name
          /\ refl[r].children # <<>>
          /\ refl[r].parent # Project
          /\ Live(r)

(* C8: a pending rename whose reflection already carries the target name, and  *)
(* is itself the reflection the search finds, leaves the tree unchanged: the   *)
(* reflection stays live and keeps its parent and its children.                *)
C8_SelfTargetNoMerge ==
    [][ (RenameDone /\ Candidates(Renaming, RenameTo) # {}
                    /\ FirstListed(Candidates(Renaming, RenameTo)) = Renaming)
          => /\ refl' = refl
             /\ project' = project ]_vars

(* C9: a logical name for which the flat list has no reflection with that name *)
(* and an absolute originalName is skipped: no error is raised, no reflection  *)
(* is modified, and the annotator goes on with the next name.                  *)
C9_SkipsUnknownName ==
    [][ (pc = "resolve" /\ i > Len(moduleRenames) /\ j <= Len(modules)
         /\ \A x \in Range(refsArray) :
               ~(refl[x].name = modules[j] /\ IsAbsolute(refl[x].originalName)))
          => /\ pc' = "resolve"
             /\ j' = j + 1
             /\ refl' = refl ]_vars

----------------------------------------------------------------------------
(* The walk, seen from outside *)

\* the directories of the upward walk, by depth: level k is the directory whose
\* pieces are the first k pieces of dirname(originalName)
WalkLevels == 1..Len(DirnameSplit(walk.originalName))

\* the base name of the directory at level k
LevelName(k) == DirnameSplit(walk.originalName)[k]

\* README.md directly inside the directory at level k
LevelReadme(k) ==
    <<"">> \o SelectSeq(SubSeq(DirnameSplit(walk.originalName), 1, k), LAMBDA s : s # "")
           \o <<"README.md">>

\* level k is named like the logical name and its README.md can be read
Readable(k) == LevelName(k) = walk.name /\ LevelReadme(k) \in walk.fs

WalkOver == walk.at \in {"end", "done"}

ReadPaths == {walk.w.reads[k].path : k \in 1..Len(walk.w.reads)}

(* C10: a description that is attached is the README.md of the deepest         *)
(* directory of the upward walk that is named like the logical name and whose  *)
(* README.md can be read; the levels below it that are named like the logical  *)
(* name were tried and failed; nothing is read in a directory with another     *)
(* base name, and nothing above the level of the successful read.              *)
C10_DeepestReadableReadme ==
    /\ (walk.at = "done" /\ walk.comment # <<>>) =>
          \E k \in WalkLevels :
              /\ Readable(k)
              /\ \A l \in WalkLevels : l > k => ~Readable(l)
              /\ walk.comment = <<LevelReadme(k)>>
              /\ \A l \in WalkLevels :
                    (l > k /\ LevelName(l) = walk.name) => LevelReadme(l) \in ReadPaths
              /\ \A q \in ReadPaths : \E l \in WalkLevels : l >= k /\ q = LevelReadme(l)
    /\ WalkOver =>
          /\ \A q \in ReadPaths :
                \E l \in WalkLevels : LevelName(l) = walk.name /\ q = LevelReadme(l)
          /\ \A e \in 1..Len(walk.w.reads) :
                walk.w.reads[e].ok => e = Len(walk.w.reads)

\* the deepest directory named like the logical name could not be read, and the
\* description comes from a directory further up although one more exists above
C10_Witness ==
    /\ walk.at = "done"
    /\ walk.comment # <<>>
    /\ Len(walk.w.reads) = 2
    /\ ~walk.w.reads[1].ok
    /\ walk.originalName = <<"", "foo", "x", "foo", "c.ts">>
    /\ <<"", "foo", "x", "README.md">> \in walk.fs

(* C11: the walk leaves the comment unset exactly when no directory of the     *)
(* upward walk is both named like the logical name and readable: then every    *)
(* directory named like the logical name was tried, every read failed, no      *)
(* failure ended the walk early, and the walk came to its end so that the      *)
(* annotator goes on.                                                          *)
C11_NoReadmeNoComment ==
    /\ walk.at = "done" =>
          (walk.comment = <<>> <=> \A k \in WalkLevels : ~Readable(k))
    /\ (walk.at = "done" /\ walk.comment = <<>>) =>
          /\ \A k \in WalkLevels :
                LevelName(k) = walk.name => LevelReadme(k) \in ReadPaths
          /\ \A e \in 1..Len(walk.w.reads) : ~walk.w.reads[e].ok
          /\ walk.w.pathStack = <<>>

\* two directories named like the logical name were tried, both reads failed
\* although other README.md files exist, and the comment stayed unset
C11_Witness ==
    /\ walk.at = "done"
    /\ walk.comment = <<>>
    /\ Len(walk.w.reads) = 2
    /\ walk.w.reads[1].path # walk.w.reads[2].path
    /\ walk.fs # {}

----------------------------------------------------------------------------
(* The node-created callback, seen from outside *)

\* the host creates a reflection and the callback runs for it
CreateStep == pc = "convert" /\ Len(refl') = Len(refl) + 1

\* the callback of this step has a node with a file path that the pattern matches
CreateMatches ==
    /\ isMappingEnabled
    /\ IsAbsolute(refl'[Len(refl')].originalName)
    /\ Exec(mapRegEx, refl'[Len(refl')].originalName) # <<>>

(* C12: the node-created callback leaves the reflection tree as the host built *)
(* it; without a match it leaves the PendingRename list and the                *)
(* LogicalNameSet unchanged; on a match it appends exactly one entry (the      *)
(* capture, the reflection just created) at the end of the list and adds the   *)
(* capture to the set; so the LogicalNameSet is exactly the set of target      *)
(* names of the PendingRename list.                                            *)
C12_CallbackFrame ==
    [][ CreateStep =>
          LET id == Len(refl')
          IN /\ refl'[id].children = <<>> /\ refl'[id].comment = <<>>
             /\ ~refl'[id].package /\ refl'[id].name \in Names
             /\ \A x \in 1..Len(refl) :
                   /\ refl'[x].name = refl[x].name /\ refl'[x].kind = refl[x].kind
                   /\ refl'[x].parent = refl[x].parent
                   /\ refl'[x].originalName = refl[x].originalName
                   /\ refl'[x].comment = refl[x].comment
                   /\ refl'[x].package = refl[x].package
                   /\ refl'[x].children = IF refl'[id].parent = x
                                          THEN Append(refl[x].children, id)
                                          ELSE refl[x].children
             /\ project'.reflections = project.reflections \cup {id}
             /\ IF CreateMatches
                THEN LET capture == Exec(mapRegEx, refl'[id].originalName)[1]
                     IN /\ moduleRenames' = Append(moduleRenames,
                               [renameTo |-> capture, reflection |-> id])
                        /\ Range(modules') = Range(modules) \cup {capture}
                ELSE moduleRenames' = moduleRenames /\ modules' = modules
             /\ Range(modules') = TargetNames' ]_vars

----------------------------------------------------------------------------
(* The label of a reflection, seen from outside *)

\* a read of kindString on reflection x yields the package label
ReadsPackage(heap, x) == GetKindString(heap[x]) = "Package"

\* the reflections of the flat list the annotator can choose for the name n
PackageCandidates(n) ==
    {y \in Range(refsArray) : refl[y].name = n /\ IsAbsolute(refl[y].originalName)}

(* C13: within a conversion a reflection whose kindString reads "Package"      *)
(* keeps that reading through every later step, the host's assignments to      *)
(* kindString included; and a reflection comes to read "Package" only in the   *)
(* annotator's step for a logical name, as the one reflection chosen for that  *)
(* name.                                                                       *)
C13_PackageLabelSticks ==
    [][ /\ run' = run =>
              \A x \in Ids : ReadsPackage(refl, x) => ReadsPackage(refl', x)
        /\ \A x \in 1..Len(refl') :
              (ReadsPackage(refl', x) /\ (x > Len(refl) \/ ~ReadsPackage(refl, x)))
                 => /\ pc = "resolve" /\ i > Len(moduleRenames) /\ j <= Len(modules)
                    /\ x <= Len(refl)
                    /\ PackageCandidates(modules[j]) # {}
                    /\ x = FirstListed(PackageCandidates(modules[j])) ]_vars

\* the host has assigned kindString everywhere: the chosen reflection still reads
\* "Package", its sibling of the same kind reads the label of its kind
C13_Witness ==
    /\ pc = "resolved"
    /\ \E x, y \in Ids :
          /\ Live(x) /\ Live(y)
          /\ refl[x].kind = refl[y].kind
          /\ ReadsPackage(refl, x)
          /\ refl[x].kindString = Undefined
          /\ GetKindString(refl[y]) = refl[y].kind

(* C14: a pending rename whose reflection is no longer in the project tree     *)
(* when its turn comes (an earlier merge of the same reconciliation removed    *)
(* it) changes nothing: the project tree and the name, parent and children of  *)
(* every live reflection stay as they are, and the loop goes on.               *)
C14_RemovedRenameNoOp ==
    [][ (RenameDone /\ ~Live(Renaming))
          => /\ project' = project
             /\ pc' = "resolve"
             /\ \A x \in Ids : Live(x) =>
                   /\ refl'[x].name = refl[x].name
                   /\ refl'[x].parent = refl[x].parent
                   /\ refl'[x].children = refl[x].children ]_vars

----------------------------------------------------------------------------
(* A merge, seen from outside *)

\* the reflection the search of this step finds
Found == FirstListed(Candidates(Renaming, RenameTo))

\* this step merges the live renaming reflection into another, live reflection
MergesIntoOther ==
    /\ RenameDone
    /\ Live(Renaming)
    /\ Candidates(Renaming, RenameTo) # {}
    /\ Found # Renaming
    /\ Live(Found)

\* the reflections of the flat list whose parent is x, in the order of the flat list
ListedChildrenSeq(x) == SelectSeq(refsArray, LAMBDA c : refl[c].parent = x)

\* the sequence s without the entries equal to x
Without(s, x) == SelectSeq(s, LAMBDA c : c # x)

(* C15: a merge of the renaming reflection r into a distinct live target m     *)
(* moves exactly the reflections of the flat list whose parent is r: each gets *)
(* parent m and stands once in m.children, in flat-list order, after m's       *)
(* previous children, which keep their order; r ends without children, keeps   *)
(* its name and is out of the project tree (and so out of the children of its  *)
(* parent); nothing else changes.                                              *)
C15_MergeMovesChildren ==
    [][ MergesIntoOther =>
          LET r == Renaming
              m == Found
              kids == ListedChildrenSeq(r)
          IN /\ \A c \in Range(kids) : refl'[c].parent = m
             /\ refl'[m].children = Without(refl[m].children \o kids, r)
             /\ \A c \in Range(kids) \ {r} : Count(refl'[m].children, c) = 1
             /\ refl'[r].children = <<>>
             /\ refl'[r].name = refl[r].name
             /\ project'.reflections = project.reflections \ {r}
             /\ project'.children = Without(project.children, r)
             /\ \A c \in Range(kids) \ {m, r} : refl'[c] = [refl[c] EXCEPT !.parent = m]
             /\ refl'[m].name = refl[m].name /\ refl'[m].kind = refl[m].kind
             /\ m \notin Range(kids) => refl'[m].parent = refl[m].parent
             /\ \A x \in Ids \ (Range(kids) \cup {r, m}) :
                   refl'[x] = [refl[x] EXCEPT !.children = Without(@, r)] ]_vars

\* a merge appended a child of the renaming reflection after the child that the
\* live target had before
C15_Witness ==
    /\ pc = "resolve" /\ last.op = "merge"
    /\ LET r == moduleRenames[last.item].reflection
           m == last.target
       IN /\ m # r /\ Live(m)
          /\ \E x, c \in Ids :
                /\ refl[m].children = <<x, c>>
                /\ pre.refl[x].parent = m
                /\ pre.refl[c].parent = r
                /\ refl[c].parent = m

----------------------------------------------------------------------------
(* The order of onBeginResolve, seen from outside *)

\* the reflection of entry e was renamed in place to this step's target name, and
\* has this step's kind
RenamedInPlaceBefore(e) ==
    LET x == moduleRenames[e].reflection
    IN /\ moduleRenames[e].renameTo = RenameTo
       /\ x # Renaming
       /\ refl[x].kind = refl[Renaming].kind
       /\ refl[x].name = RenameTo
       /\ pre.refl[x].name # RenameTo

\* the annotator acts in this step
AnnotatorActs ==
    /\ pc = "resolve"
    /\ \/ j' # j
       \/ pc' = "threw"
       \/ \E x \in Ids : refl'[x].package # refl[x].package
                         \/ refl'[x].comment # refl[x].comment

(* C16: the node-created callbacks only append to the PendingRename list;      *)
(* onBeginResolve takes its entries one at a time in that order, without       *)
(* changing the list; a reflection that an earlier entry renamed in place to   *)
(* N is the merge target of every later entry with target N and the same       *)
(* kind; and the annotator acts only when every entry has been processed.      *)
C16_RecordingOrder ==
    [][ /\ (pc = "convert" /\ pc' = "convert") =>
              /\ Len(moduleRenames') >= Len(moduleRenames)
              /\ SubSeq(moduleRenames', 1, Len(moduleRenames)) = moduleRenames
        /\ pc = "resolve" =>
              /\ moduleRenames' = moduleRenames
              /\ i' \in {i, i + 1}
              /\ refsArray' = refsArray
        /\ RenameDone =>
              \A e \in 1..(i-1) :
                  RenamedInPlaceBefore(e) =>
                      /\ Found = moduleRenames[e].reflection
                      /\ MergedInto(moduleRenames[e].reflection)
                      /\ refl'[Renaming].name = refl[Renaming].name
        /\ AnnotatorActs => (i > Len(moduleRenames) /\ i' = i) ]_vars

\* the entry merged into a reflection that got the target name from an earlier
\* entry, and a child followed; then the annotator handled a name
C16_Witness ==
    /\ pc = "resolve" /\ last.op = "annotate"
    /\ \E e, f \in 1..Len(moduleRenames) :
          LET m == moduleRenames[e].reflection
              r == moduleRenames[f].reflection
          IN /\ e < f
             /\ moduleRenames[e].renameTo = moduleRenames[f].renameTo
             /\ pre.refl[m].name # refl[m].name
             /\ refl[m].name = moduleRenames[e].renameTo
             /\ Live(m) /\ ~Live(r)
             /\ \E c \in Ids : pre.refl[c].parent = r /\ refl[c].parent = m

(* C17: the walk terminates: every iteration starts with a segment left and    *)
(* removes exactly one, the loop ends exactly when a read has succeeded or no  *)
(* segment is left, an iteration attempts at most one read, and no directory   *)
(* is read twice.                                                              *)
C17_WalkTerminates ==
    [][ walk.at = "body" =>
          /\ Len(walk.w.pathStack) >= 1
          /\ Len(walk'.w.pathStack) = Len(walk.w.pathStack) - 1
          /\ walk'.at = "end" <=> (walk'.w.readme # <<>> \/ walk'.w.pathStack = <<>>)
          /\ Len(walk'.w.reads) <= Len(walk.w.reads) + 1
          /\ \A e, f \in 1..Len(walk'.w.reads) :
                e # f => walk'.w.reads[e].path # walk'.w.reads[f].path ]_vars

----------------------------------------------------------------------------
(* The parent relation, seen from outside *)

RECURSIVE Reaches(_, _, _)
\* x is the parent of y or one of the next n-1 reflections up the parent chain of y
Reaches(x, y, n) ==
    /\ n > 0
    /\ y # Project
    /\ \/ refl[y].parent = x
       \/ Reaches(x, refl[y].parent, n - 1)

(* C18: after each processed pending rename the parent relation is a forest:   *)
(* no reflection is its own parent or its own ancestor, and none is contained  *)
(* in its own children.                                                        *)
C18_Forest ==
    pc \in {"resolve", "done", "threw", "resolved"} =>
        \A x \in Ids :
            /\ ~Reaches(x, x, Len(refl))
            /\ x \notin Range(refl[x].children)

(* C19: a reflection the annotator has marked is live in the project tree: the *)
(* annotator never chooses a reflection that a merge of the same               *)
(* reconciliation removed.                                                     *)
C19_AnnotatedIsLive ==
    \A x \in Ids : refl[x].package => Live(x)

====
